---- MODULE Spec2Model ----
(***************************************************************************)
(* TweetService of Rettiwt-API: the three-phase media upload, the search   *)
(* and list operations with their createdAt sort, the polling stream       *)
(* generator built on search, the single-request methods with the          *)
(* extractors table, and post.                                             *)
(*                                                                         *)
(* The specifications share the variables; each runs one operation and     *)
(* leaves the state of the others at rest:                                 *)
(*   SpecUpload             TweetService.upload                            *)
(*   SpecSearch             TweetService.search / TweetService.list        *)
(*   SpecStream             TweetService.stream and its consumer           *)
(*   SpecStreamUnparseable  the same, one createdAt being unparseable      *)
(*   SpecTwoStreams         two generators of one instance, interleaved    *)
(*   SpecService            details, like, likers, list, retweet,          *)
(*                          retweeters, search: request and extraction     *)
(*   SpecPost               TweetService.post and its uploads              *)
(***************************************************************************)
EXTENDS Integers, Sequences, FiniteSets, TLC

VARIABLES
    \* ---- upload(media) ----
    media,        \* the argument of upload: a file path or an ArrayBuffer
    upPc,         \* position of upload: ready, init, append, finalize, returned, failed
    id,           \* the local `id` of upload (media_id_string of the Initialize response)
    upTrace,      \* requests issued and their outcomes, in order
    upResult,     \* the value upload resolved with
    upError,      \* the error upload rejected with
    \* ---- search(query, count, cursor) / list(listId, count, cursor) ----
    seResource,   \* TWEET_SEARCH for search, LIST_TWEETS for list
    sePc,         \* position of the call: ready, request, returned, failed
    seResponse,   \* the raw response the request resolved with
    data,         \* the CursoredData the call resolved with
    \* ---- stream(filter, pollingInterval): the generator ----
    stPc,         \* start (not begun), sleep, search, yield (suspended), done
    cursor,       \* the local `cursor`
    sinceId,      \* the local `sinceId`
    nextSinceId,  \* the local `nextSinceId`
    tweets,       \* the local `tweets`: the batch of the last search
    idx,          \* how many entities of `tweets.list` were yielded
    stError,      \* the error the sequence terminated with
    \* ---- stream: the consumer ----
    pending,      \* a next() request is awaiting its result
    returnQueued, \* a return() request waits behind the pending next()
    abandoned,    \* the consumer called return()
    \* ---- stream: what the upstream and the consumer observed ----
    nSearch,      \* searches issued
    lastReq,      \* the arguments of the last search, and what preceded it
    searchError,  \* the error the upstream failed a search with
    yielded,      \* ids of the entities delivered to the consumer
    dup,          \* some entity was delivered twice
    roundIds,     \* ids returned by the sub-pages of the current round
    provisos,     \* what the upstream has respected so far
    firstTop,     \* id of the first entity of the round's first sub-page
    roundPages,   \* sub-pages answered in the current round
    emptyRounds,  \* consecutive rounds, up to now, whose first sub-page was empty
    \* ---- a second stream generator of the same service instance ----
    running,      \* which generator the stream variables above belong to
    parked,       \* the state of the other generator
    \* ---- one call of details, like, likers, list, retweet, retweeters, search ----
    svOp,         \* the method called
    svCursor,     \* its `cursor` argument
    svPc,         \* position of the call: ready, request, returned, failed
    svResponse,   \* the raw response the request resolved with
    svResult,     \* the value the call resolved with
    svError,      \* the error the call rejected with
    svDataset,    \* number of pages of the upstream dataset
    svReceived,   \* pages the paginating caller received, in order
    svFault,      \* the upstream failed a request or answered without an envelope
    \* ---- post(options) ----
    options,      \* the argument of post
    poPc,         \* position of post: ready, upload, create, returned, failed
    uploadedMedia,\* the local `uploadedMedia`
    poItem,       \* index in tweet.media of the item being uploaded
    poTrace,      \* requests issued by post and its uploads, and their outcomes
    poResult,     \* the value post resolved with
    poError       \* the error post rejected with

upVars == <<media, upPc, id, upTrace, upResult, upError>>
seVars == <<seResource, sePc, seResponse, data>>
genVars == <<stPc, cursor, sinceId, nextSinceId, tweets, idx, stError>>
conVars == <<pending, returnQueued, abandoned>>
reqVars == <<nSearch, lastReq>>
obsVars == <<searchError, yielded, dup, roundIds, provisos, firstTop, roundPages,
             emptyRounds>>
stVars == <<genVars, conVars, reqVars, obsVars>>
twVars == <<running, parked>>
svVars == <<svOp, svCursor, svPc, svResponse, svResult, svError, svDataset,
            svReceived, svFault>>
poVars == <<options, poPc, uploadedMedia, poItem, poTrace, poResult, poError>>

vars == <<upVars, seVars, stVars, twVars, svVars, poVars>>

\* What the steps of one operation leave alone.
offUpload == <<seVars, stVars, twVars, svVars, poVars>>
offSearch == <<upVars, stVars, twVars, svVars, poVars>>
offStream == <<upVars, seVars, twVars, svVars, poVars>>

(***************************************************************************)
(* Values                                                                  *)
(***************************************************************************)
\* JavaScript's undefined, for string-valued places (cursor, media id, error).
Undefined == "undefined"

\* Largest payload size in bytes.
MaxSize == 2

Sizes == 1..MaxSize

\* Media identifiers the upstream may allocate.
MediaIds == {"m1", "m2"}

\* Errors a request may fail with (transport or HTTP failure).
Errors == {"E_NETWORK", "E_HTTP"}

\* media: string | ArrayBuffer. A path may name no file.
Medias ==
    {[kind |-> "path", size |-> s, exists |-> e] : s \in Sizes, e \in BOOLEAN}
        \cup {[kind |-> "buffer", size |-> s, exists |-> TRUE] : s \in Sizes}

\* EResourceType members used by upload.
MEDIA_UPLOAD_INITIALIZE == "MEDIA_UPLOAD_INITIALIZE"
MEDIA_UPLOAD_APPEND == "MEDIA_UPLOAD_APPEND"
MEDIA_UPLOAD_FINALIZE == "MEDIA_UPLOAD_FINALIZE"

\* IInitializeMediaUploadResponse: the identifier may be missing.
InitResponses == {[media_id_string |-> m] : m \in MediaIds \cup {Undefined}}

\* The response to Append and to Finalize, which upload does not read.
Acknowledged == [acknowledged |-> TRUE]

(***************************************************************************)
(* FetcherService.request: one call is one request event; it resolves with *)
(* the raw response or rejects with an error.                              *)
(***************************************************************************)
Request(resource, args) == [type |-> "request", resource |-> resource, args |-> args]
Response(resource, body) == [type |-> "response", resource |-> resource, body |-> body]
Failure(resource, err) == [type |-> "error", resource |-> resource, err |-> err]

(***************************************************************************)
(* upload(media)                                                           *)
(***************************************************************************)
UploadInit ==
    /\ media \in Medias
    /\ upPc = "ready"
    /\ id = Undefined
    /\ upTrace = <<>>
    /\ upResult = Undefined
    /\ upError = Undefined

\* The state of upload when another operation is the one running.
UploadIdle ==
    /\ media = [kind |-> "buffer", size |-> 1, exists |-> TRUE]
    /\ upPc = "idle"
    /\ id = Undefined
    /\ upTrace = <<>>
    /\ upResult = Undefined
    /\ upError = Undefined

\* statSync(media).size or media.byteLength; statSync throws on a missing file.
UploadCall ==
    /\ upPc = "ready"
    /\ IF media.kind = "path" /\ ~media.exists
       THEN /\ upPc' = "failed"
            /\ upError' = "ENOENT"
            /\ UNCHANGED <<media, id, upTrace, upResult>>
       ELSE /\ upTrace' = <<Request(MEDIA_UPLOAD_INITIALIZE, [size |-> media.size])>>
            /\ upPc' = "init"
            /\ UNCHANGED <<media, id, upResult, upError>>
    /\ UNCHANGED offUpload

\* The resource of the request upload is awaiting.
InFlight == upTrace[Len(upTrace)].resource

\* A variant of InitializeReturns that does not await Append before Finalize.
InitializeReturnsNoAwait(resp) ==
    /\ upPc = "init"
    /\ id' = resp.media_id_string
    /\ upTrace' = upTrace \o
            <<Response(MEDIA_UPLOAD_INITIALIZE, resp),
              Request(MEDIA_UPLOAD_APPEND, [id |-> resp.media_id_string, media |-> media]),
              Request(MEDIA_UPLOAD_FINALIZE, [id |-> resp.media_id_string])>>
    /\ upPc' = "finalize"
    /\ UNCHANGED <<media, upResult, upError>>
    /\ UNCHANGED offUpload

\* Initialize resolves: `id` is read off the response, unchecked, and Append
\* is requested with it.
InitializeReturns(resp) ==
    /\ upPc = "init"
    /\ id' = resp.media_id_string
    /\ upTrace' = upTrace \o
            <<Response(MEDIA_UPLOAD_INITIALIZE, resp),
              Request(MEDIA_UPLOAD_APPEND, [id |-> resp.media_id_string, media |-> media])>>
    /\ upPc' = "append"
    /\ UNCHANGED <<media, upResult, upError>>
    /\ UNCHANGED offUpload

\* A variant of AppendReturns that requests Finalize without the identifier.
AppendReturnsNoId ==
    /\ upPc = "append"
    /\ upTrace' = upTrace \o
            <<Response(MEDIA_UPLOAD_APPEND, Acknowledged),
              Request(MEDIA_UPLOAD_FINALIZE, [id |-> Undefined])>>
    /\ upPc' = "finalize"
    /\ UNCHANGED <<media, id, upResult, upError>>
    /\ UNCHANGED offUpload

\* Append resolves (its response is discarded): Finalize is requested.
AppendReturns ==
    /\ upPc = "append"
    /\ upTrace' = upTrace \o
            <<Response(MEDIA_UPLOAD_APPEND, Acknowledged), Request(MEDIA_UPLOAD_FINALIZE, [id |-> id])>>
    /\ upPc' = "finalize"
    /\ UNCHANGED <<media, id, upResult, upError>>
    /\ UNCHANGED offUpload

\* Finalize resolves: upload returns `id`.
FinalizeReturns ==
    /\ upPc = "finalize"
    /\ upTrace' = Append(upTrace, Response(MEDIA_UPLOAD_FINALIZE, Acknowledged))
    /\ upResult' = id
    /\ upPc' = "returned"
    /\ UNCHANGED <<media, id, upError>>
    /\ UNCHANGED offUpload

\* A variant of RequestFails that requests the failed phase once more.
RequestFailsRetry(err) ==
    /\ upPc \in {"init", "append", "finalize"}
    /\ upTrace' = upTrace \o <<Failure(InFlight, err), upTrace[Len(upTrace)]>>
    /\ UNCHANGED <<media, upPc, id, upResult, upError>>
    /\ UNCHANGED offUpload

\* The awaited request rejects: nothing catches it, upload rejects with it.
RequestFails(err) ==
    /\ upPc \in {"init", "append", "finalize"}
    /\ upTrace' = Append(upTrace, Failure(InFlight, err))
    /\ upError' = err
    /\ upPc' = "failed"
    /\ UNCHANGED <<media, id, upResult>>
    /\ UNCHANGED offUpload

UploadNext ==
    \/ UploadCall
    \/ \E resp \in InitResponses : InitializeReturns(resp)
    \/ AppendReturns
    \/ FinalizeReturns
    \/ \E err \in Errors : RequestFails(err)

(***************************************************************************)
(* search(query, count, cursor) and list(listId, count, cursor)            *)
(***************************************************************************)
\* Largest tweet id; a larger id is a more recent tweet.
MaxId == 3

\* Longest list of entities in one raw response to search or list.
MaxLen == 3

TweetIds == 1..MaxId

\* created_at strings: three that parse (T-1 the most recent) and one that does not.
DateStrings == {"T-1", "T-2", "T-3", "garbage"}

\* Pagination tokens.
Cursors == {"c1", "c2"}

TWEET_SEARCH == "TWEET_SEARCH"
LIST_TWEETS == "LIST_TWEETS"

\* The value of an invalid Date.
NaN == -1

\* new Date(createdAt).valueOf(): milliseconds, or NaN for a string that is no date.
DateValue(createdAt) ==
    CASE createdAt = "T-3" -> 1000
      [] createdAt = "T-2" -> 2000
      [] createdAt = "T-1" -> 3000
      [] OTHER -> NaN

\* Raw tweets of a response.
RawTweets == [rest_id : TweetIds, created_at : DateStrings]

\* Sequences over S of length at most n.
SeqsUpTo(S, n) == UNION {[1..k -> S] : k \in 0..n}

DistinctIds(q) == \A i, j \in 1..Len(q) : i # j => q[i].rest_id # q[j].rest_id

\* Raw responses of at most n entries drawn from S, without a repeated tweet:
\* entries and a bottom cursor.
ResponsesOver(S, n) ==
    {[entries |-> q, cursor |-> c] :
        q \in {r \in SeqsUpTo(S, n) : DistinctIds(r)},
        c \in Cursors \cup {Undefined}}

\* Raw responses of the search and list resources.
RawResponses == ResponsesOver(RawTweets, MaxLen)

\* Tweet: the entity built from a raw tweet.
Tweet(raw) == [id |-> raw.rest_id, createdAt |-> raw.created_at]

\* CursoredData<Tweet>: the entities in upstream order and the next cursor.
CursoredData(response) ==
    [list |-> [i \in 1..Len(response.entries) |-> Tweet(response.entries[i])],
     next |-> response.cursor]

\* The comparator of the sort, as Array.prototype.sort reads it: b - a on the
\* parsed dates, a NaN result counting as +0.
SortCompare(a, b) ==
    IF DateValue(a.createdAt) = NaN \/ DateValue(b.createdAt) = NaN
    THEN 0
    ELSE DateValue(b.createdAt) - DateValue(a.createdAt)

\* Whether the comparator is a consistent comparator for the elements of q.
IsConsistent(q) ==
    \A i, j, k \in 1..Len(q) :
        /\ (SortCompare(q[i], q[j]) = 0 /\ SortCompare(q[j], q[k]) = 0)
                => SortCompare(q[i], q[k]) = 0
        /\ (SortCompare(q[i], q[j]) < 0 /\ SortCompare(q[j], q[k]) < 0)
                => SortCompare(q[i], q[k]) < 0
        /\ (SortCompare(q[i], q[j]) > 0 /\ SortCompare(q[j], q[k]) > 0)
                => SortCompare(q[i], q[k]) > 0

\* x put into the sorted q behind every element that does not come after it.
InsertSorted(q, x) ==
    LET k == Cardinality({i \in 1..Len(q) : SortCompare(q[i], x) <= 0})
    IN SubSeq(q, 1, k) \o <<x>> \o SubSeq(q, k + 1, Len(q))

\* The stable sort of q by the comparator.
RECURSIVE StableSort(_)
StableSort(q) ==
    IF q = <<>> THEN <<>>
    ELSE InsertSorted(StableSort(SubSeq(q, 1, Len(q) - 1)), q[Len(q)])

\* Every rearrangement of q.
Rearrangements(q) ==
    {[i \in 1..Len(q) |-> q[p[i]]] : p \in Permutations(1..Len(q))}

\* list.sort(comparator): the stable sort when the comparator is consistent,
\* an implementation-defined order otherwise.
SortOutcomes(q) ==
    IF IsConsistent(q) THEN {StableSort(q)} ELSE Rearrangements(q)

\* What search resolves with for a raw response.
SearchResults(response) ==
    {[list |-> l, next |-> CursoredData(response).next] :
        l \in SortOutcomes(CursoredData(response).list)}

\* What list resolves with for a raw response.
ListResults(response) ==
    {[list |-> l, next |-> CursoredData(response).next] :
        l \in SortOutcomes(CursoredData(response).list)}

NoData == [list |-> <<>>, next |-> Undefined]
NoResponse == [entries |-> <<>>, cursor |-> Undefined]

SearchInit ==
    /\ seResource \in {TWEET_SEARCH, LIST_TWEETS}
    /\ sePc = "ready"
    /\ seResponse = NoResponse
    /\ data = NoData

\* The state of search when another operation is the one running.
SearchIdle ==
    /\ seResource = TWEET_SEARCH
    /\ sePc = "idle"
    /\ seResponse = NoResponse
    /\ data = NoData

\* search or list is called: the request is issued.
SearchCall ==
    /\ sePc = "ready"
    /\ sePc' = "request"
    /\ UNCHANGED <<seResource, seResponse, data>>
    /\ UNCHANGED offSearch

\* The request resolves: the response is extracted and the list sorted.
SearchRequestReturns(resp) ==
    /\ sePc = "request"
    /\ seResponse' = resp
    /\ data' \in (IF seResource = TWEET_SEARCH THEN SearchResults(resp)
                                             ELSE ListResults(resp))
    /\ sePc' = "returned"
    /\ UNCHANGED seResource
    /\ UNCHANGED offSearch

\* The request rejects: so does the call.
SearchRequestFails ==
    /\ sePc = "request"
    /\ sePc' = "failed"
    /\ UNCHANGED <<seResource, seResponse, data>>
    /\ UNCHANGED offSearch

SearchNext ==
    \/ SearchCall
    \/ \E resp \in RawResponses : SearchRequestReturns(resp)
    \/ SearchRequestFails

(***************************************************************************)
(* stream(filter, pollingInterval)                                         *)
(***************************************************************************)
\* Searches one generator may issue in a run of the model.
MaxSearches == 3

\* Longest page the upstream answers a search of the generator with.
MaxPage == 2

\* undefined for sinceId and nextSinceId; a tweet id otherwise.
NoId == 0

\* The created_at of the tweets of the streamed timeline.
StreamDate(i) ==
    CASE i = 1 -> "T-3"
      [] i = 2 -> "T-2"
      [] i = 3 -> "T-1"
      [] OTHER -> "garbage"

\* What the upstream may answer a search of the generator with: any page of
\* the timeline, with or without a next cursor.
StreamResponses ==
    ResponsesOver({[rest_id |-> i, created_at |-> StreamDate(i)] : i \in TweetIds},
                  MaxPage)

Ids(list) == {list[i].id : i \in 1..Len(list)}

\* A variant of Bookkeep that records the candidate watermark on every
\* non-empty sub-page.
BookkeepEveryPage(c, s, n, tw) ==
    LET n1 == IF Len(tw.list) > 0 THEN tw.list[1].id ELSE n
    IN IF Len(tw.list) > 0 /\ tw.next # Undefined
       THEN [cursor |-> tw.next, sinceId |-> s, nextSinceId |-> n1]
       ELSE [cursor |-> Undefined, sinceId |-> n1, nextSinceId |-> n1]

\* A variant of Bookkeep that never promotes the candidate watermark.
BookkeepNoPromote(c, s, n, tw) ==
    LET n1 == IF Len(tw.list) > 0 /\ c = Undefined THEN tw.list[1].id ELSE n
    IN IF Len(tw.list) > 0 /\ tw.next # Undefined
       THEN [cursor |-> tw.next, sinceId |-> s, nextSinceId |-> n1]
       ELSE [cursor |-> Undefined, sinceId |-> s, nextSinceId |-> n1]

\* A variant of Bookkeep that keeps the cursor when the round ends.
BookkeepKeepCursor(c, s, n, tw) ==
    LET n1 == IF Len(tw.list) > 0 /\ c = Undefined THEN tw.list[1].id ELSE n
    IN IF Len(tw.list) > 0 /\ tw.next # Undefined
       THEN [cursor |-> tw.next, sinceId |-> s, nextSinceId |-> n1]
       ELSE [cursor |-> c, sinceId |-> n1, nextSinceId |-> n1]

\* A variant of Bookkeep that promotes the candidate watermark as soon as it
\* is recorded, in the middle of the round.
BookkeepPromoteEarly(c, s, n, tw) ==
    LET n1 == IF Len(tw.list) > 0 /\ c = Undefined THEN tw.list[1].id ELSE n
    IN IF Len(tw.list) > 0 /\ tw.next # Undefined
       THEN [cursor |-> tw.next, sinceId |-> n1, nextSinceId |-> n1]
       ELSE [cursor |-> Undefined, sinceId |-> n1, nextSinceId |-> n1]

\* A variant of Bookkeep that forgets the watermark after an empty batch.
BookkeepResetOnEmpty(c, s, n, tw) ==
    LET n1 == IF Len(tw.list) > 0 /\ c = Undefined THEN tw.list[1].id ELSE n
    IN IF Len(tw.list) > 0 /\ tw.next # Undefined
       THEN [cursor |-> tw.next, sinceId |-> s, nextSinceId |-> n1]
       ELSE [cursor |-> Undefined,
             sinceId |-> IF Len(tw.list) = 0 THEN NoId ELSE n1,
             nextSinceId |-> n1]

\* A variant of Bookkeep that follows the next cursor of an empty batch.
BookkeepFollowCursor(c, s, n, tw) ==
    LET n1 == IF Len(tw.list) > 0 /\ c = Undefined THEN tw.list[1].id ELSE n
    IN IF tw.next # Undefined
       THEN [cursor |-> tw.next, sinceId |-> s, nextSinceId |-> n1]
       ELSE [cursor |-> Undefined, sinceId |-> n1, nextSinceId |-> n1]

\* The bookkeeping after the batch tw was yielded, from cursor c, sinceId s
\* and nextSinceId n.
Bookkeep(c, s, n, tw) ==
    LET n1 == IF Len(tw.list) > 0 /\ c = Undefined THEN tw.list[1].id ELSE n
    IN IF Len(tw.list) > 0 /\ tw.next # Undefined
       THEN [cursor |-> tw.next, sinceId |-> s, nextSinceId |-> n1]
       ELSE [cursor |-> Undefined, sinceId |-> n1, nextSinceId |-> n1]

\* this.search({...filter, sinceId}, undefined, cursor) is called with the
\* generator's state st; sl tells whether the interval sleep preceded it.
IssueSearch(st, sl) ==
    /\ nSearch' = nSearch + 1
    /\ lastReq' = [sinceId |-> st.sinceId, cursor |-> st.cursor, slept |-> sl,
                   prevTop |-> firstTop, prevPages |-> roundPages]
    /\ stPc' = "search"

\* A variant of LoopAgain that continues a round without sleeping.
LoopAgainNoSleep(st) ==
    IF st.cursor # Undefined /\ nSearch < MaxSearches
    THEN IssueSearch(st, FALSE)
    ELSE stPc' = "sleep" /\ UNCHANGED reqVars

\* A variant of LoopAgain that sleeps between the sub-pages of a round only:
\* the first search of a round is issued at once.
LoopAgainNewRoundNoSleep(st) ==
    IF st.cursor = Undefined /\ nSearch < MaxSearches
    THEN IssueSearch(st, FALSE)
    ELSE stPc' = "sleep" /\ UNCHANGED reqVars

\* The top of the while loop: every iteration starts with the interval sleep.
LoopAgain(st) ==
    /\ stPc' = "sleep"
    /\ UNCHANGED reqVars

\* A variant of EndOfBatch that ends the sequence after an empty batch.
EndOfBatchStopOnEmpty(tw) ==
    LET st == Bookkeep(cursor, sinceId, nextSinceId, tw)
    IN /\ cursor' = st.cursor
       /\ sinceId' = st.sinceId
       /\ nextSinceId' = st.nextSinceId
       /\ IF tw.list = <<>>
          THEN stPc' = "done" /\ UNCHANGED reqVars
          ELSE LoopAgain(st)

\* The for loop over tw.list is over: bookkeeping, then the next iteration.
EndOfBatch(tw) ==
    LET st == Bookkeep(cursor, sinceId, nextSinceId, tw)
    IN /\ cursor' = st.cursor
       /\ sinceId' = st.sinceId
       /\ nextSinceId' = st.nextSinceId
       /\ LoopAgain(st)

\* A variant of Yield that hands the entity over and goes on to the next
\* iteration without waiting to be asked for the rest of the batch.
YieldNoSuspend(tw, k) ==
    /\ idx' = k
    /\ yielded' = yielded \cup {tw.list[k].id}
    /\ dup' = (dup \/ tw.list[k].id \in yielded)
    /\ pending' = FALSE
    /\ stPc' = "sleep"

\* yield tw.list[k]: the pending next() resolves with the entity; a return()
\* queued behind it then completes the generator at this yield.
Yield(tw, k) ==
    /\ idx' = k
    /\ yielded' = yielded \cup {tw.list[k].id}
    /\ dup' = (dup \/ tw.list[k].id \in yielded)
    /\ pending' = FALSE
    /\ stPc' = IF returnQueued THEN "done" ELSE "yield"

StreamInit ==
    /\ stPc = "start"
    /\ cursor = Undefined
    /\ sinceId = NoId
    /\ nextSinceId = NoId
    /\ tweets = NoData
    /\ idx = 0
    /\ stError = Undefined
    /\ pending = FALSE
    /\ returnQueued = FALSE
    /\ abandoned = FALSE
    /\ nSearch = 0
    /\ lastReq = [sinceId |-> NoId, cursor |-> Undefined, slept |-> FALSE,
                  prevTop |-> NoId, prevPages |-> 0]
    /\ searchError = Undefined
    /\ yielded = {}
    /\ dup = FALSE
    /\ roundIds = {}
    /\ provisos = [since |-> TRUE, disjoint |-> TRUE, top |-> TRUE]
    /\ firstTop = NoId
    /\ roundPages = 0
    /\ emptyRounds = 0

\* The frame of a generator object: the locals of its invocation of stream,
\* its consumer's requests, and what was observed of it.
Frame ==
    [stPc |-> stPc,
     cursor |-> cursor,
     sinceId |-> sinceId,
     nextSinceId |-> nextSinceId,
     tweets |-> tweets,
     idx |-> idx,
     stError |-> stError,
     pending |-> pending,
     returnQueued |-> returnQueued,
     abandoned |-> abandoned,
     nSearch |-> nSearch,
     lastReq |-> lastReq,
     searchError |-> searchError,
     yielded |-> yielded,
     dup |-> dup,
     roundIds |-> roundIds,
     provisos |-> provisos,
     firstTop |-> firstTop,
     roundPages |-> roundPages,
     emptyRounds |-> emptyRounds]

\* The frame of a generator whose body has not begun.
NewFrame ==
    [stPc |-> "start", cursor |-> Undefined, sinceId |-> NoId,
     nextSinceId |-> NoId, tweets |-> NoData, idx |-> 0, stError |-> Undefined,
     pending |-> FALSE, returnQueued |-> FALSE, abandoned |-> FALSE,
     nSearch |-> 0,
     lastReq |-> [sinceId |-> NoId, cursor |-> Undefined, slept |-> FALSE,
                  prevTop |-> NoId, prevPages |-> 0],
     searchError |-> Undefined, yielded |-> {}, dup |-> FALSE, roundIds |-> {},
     provisos |-> [since |-> TRUE, disjoint |-> TRUE, top |-> TRUE],
     firstTop |-> NoId, roundPages |-> 0, emptyRounds |-> 0]

\* A second call of stream on the same service instance returned another
\* generator, whose body has not begun.
TwoStreamsInit ==
    /\ running = 1
    /\ parked = NewFrame

\* The state of the generator when another operation is the one running.
StreamIdle ==
    /\ StreamInit
    /\ TwoStreamsInit

\* A variant of ConsumerNext in which cursor, sinceId and nextSinceId are
\* fields of the service instance: the first next() of a generator
\* initialises them for every generator of the instance.
ConsumerNextSharedLocals ==
    /\ ~pending
    /\ ~abandoned
    /\ \/ /\ stPc = "start"
          /\ pending' = TRUE
          /\ stPc' = "sleep"
          /\ parked' = [parked EXCEPT !.cursor = Undefined, !.sinceId = NoId,
                                      !.nextSinceId = NoId]
          /\ UNCHANGED <<cursor, sinceId, nextSinceId, tweets, idx, stError,
                         returnQueued, abandoned, reqVars, obsVars>>
       \/ /\ stPc = "yield"
          /\ idx < Len(tweets.list)
          /\ Yield(tweets, idx + 1)
          /\ UNCHANGED <<cursor, sinceId, nextSinceId, tweets, stError,
                         returnQueued, abandoned, reqVars, searchError, roundIds,
                         provisos, firstTop, roundPages, emptyRounds, parked>>
       \/ /\ stPc = "yield"
          /\ idx = Len(tweets.list)
          /\ pending' = TRUE
          /\ EndOfBatch(tweets)
          /\ UNCHANGED <<tweets, idx, stError, returnQueued, abandoned, obsVars,
                         parked>>
    /\ UNCHANGED <<upVars, seVars, svVars, poVars, running>>

\* The consumer calls next() on the suspended generator: the body runs to its
\* next suspension point.
ConsumerNext ==
    /\ ~pending
    /\ ~abandoned
    /\ \/ /\ stPc = "start"
          /\ pending' = TRUE
          /\ stPc' = "sleep"
          /\ UNCHANGED <<cursor, sinceId, nextSinceId, tweets, idx, stError,
                         returnQueued, abandoned, reqVars, obsVars>>
       \/ /\ stPc = "yield"
          /\ idx < Len(tweets.list)
          /\ Yield(tweets, idx + 1)
          /\ UNCHANGED <<cursor, sinceId, nextSinceId, tweets, stError,
                         returnQueued, abandoned, reqVars, searchError, roundIds,
                         provisos, firstTop, roundPages, emptyRounds>>
       \/ /\ stPc = "yield"
          /\ idx = Len(tweets.list)
          /\ pending' = TRUE
          /\ EndOfBatch(tweets)
          /\ UNCHANGED <<tweets, idx, stError, returnQueued, abandoned, obsVars>>
    /\ UNCHANGED offStream

\* The timer of the interval sleep fires: the search is issued.
StreamSleepDone ==
    /\ stPc = "sleep"
    /\ nSearch < MaxSearches
    /\ IssueSearch([cursor |-> cursor, sinceId |-> sinceId,
                    nextSinceId |-> nextSinceId], TRUE)
    /\ UNCHANGED <<cursor, sinceId, nextSinceId, tweets, idx, stError, conVars,
                   obsVars>>
    /\ UNCHANGED offStream

\* What the upstream sees of the answer resp, sorted by search into out, to
\* the request lastReq.
Observe(out) ==
    LET isFirst == lastReq.cursor = Undefined
        top == IF isFirst
               THEN (IF Len(out.list) > 0 THEN out.list[1].id ELSE NoId)
               ELSE firstTop
    IN /\ roundIds' = IF isFirst THEN Ids(out.list) ELSE roundIds \cup Ids(out.list)
       /\ provisos' =
            [since |-> provisos.since /\
                        (lastReq.sinceId = NoId \/
                            \A i \in Ids(out.list) : i > lastReq.sinceId),
             disjoint |-> provisos.disjoint /\
                        (isFirst \/ Ids(out.list) \cap roundIds = {}),
             top |-> provisos.top /\ \A i \in Ids(out.list) : i <= top]
       /\ firstTop' = top
       /\ roundPages' = IF isFirst THEN 1 ELSE roundPages + 1
       /\ emptyRounds' = IF isFirst /\ out.list = <<>> THEN emptyRounds + 1 ELSE 0

\* The search resolves with the sorted batch out of the raw response resp:
\* the first entity is yielded, or, the batch being empty, the iteration ends.
StreamSearchReturns(resp, out) ==
    /\ stPc = "search"
    /\ tweets' = out
    /\ Observe(out)
    /\ IF Len(out.list) > 0
       THEN /\ Yield(out, 1)
            /\ UNCHANGED <<cursor, sinceId, nextSinceId, reqVars>>
       ELSE /\ EndOfBatch(out)
            /\ idx' = 0
            /\ UNCHANGED <<pending, yielded, dup>>
    /\ UNCHANGED <<stError, returnQueued, abandoned, searchError>>
    /\ UNCHANGED offStream

\* A variant of OnSearchError that ends the sequence normally.
OnSearchErrorSwallow(err) ==
    /\ stPc' = "done"
    /\ stError' = Undefined
    /\ pending' = FALSE

\* The awaited search rejects: nothing catches it, the generator completes
\* and the pending next() rejects with the error.
OnSearchError(err) ==
    /\ stPc' = "done"
    /\ stError' = err
    /\ pending' = FALSE

\* The upstream fails the search with err.
StreamSearchFails(err) ==
    /\ stPc = "search"
    /\ searchError' = err
    /\ OnSearchError(err)
    /\ UNCHANGED <<cursor, sinceId, nextSinceId, tweets, idx, returnQueued,
                   abandoned, reqVars, yielded, dup, roundIds, provisos, firstTop,
                   roundPages, emptyRounds>>
    /\ UNCHANGED offStream

\* The consumer calls return(): a suspended generator completes at once, a
\* running one queues the request behind the pending next().
ConsumerReturn ==
    /\ ~abandoned
    /\ abandoned' = TRUE
    /\ IF stPc \in {"start", "yield"}
       THEN stPc' = "done" /\ UNCHANGED returnQueued
       ELSE IF stPc \in {"sleep", "search"}
       THEN returnQueued' = TRUE /\ UNCHANGED stPc
       ELSE UNCHANGED <<stPc, returnQueued>>
    /\ UNCHANGED <<cursor, sinceId, nextSinceId, tweets, idx, stError, pending,
                   reqVars, obsVars>>
    /\ UNCHANGED offStream

StreamNext ==
    \/ ConsumerNext
    \/ StreamSleepDone
    \/ \E resp \in StreamResponses :
            \E out \in SearchResults(resp) : StreamSearchReturns(resp, out)
    \/ \E err \in Errors : StreamSearchFails(err)
    \/ ConsumerReturn

(***************************************************************************)
(* The generator against a timeline one entity of which has a createdAt    *)
(* that Date cannot parse                                                  *)
(***************************************************************************)
UnparseableResponses ==
    ResponsesOver({[rest_id |-> i,
                    created_at |-> IF i = 2 THEN "garbage" ELSE StreamDate(i)] :
                        i \in TweetIds},
                  MaxLen)

StreamUnparseableNext ==
    \/ ConsumerNext
    \/ StreamSleepDone
    \/ \E resp \in UnparseableResponses :
            \E out \in SearchResults(resp) : StreamSearchReturns(resp, out)
    \/ \E err \in Errors : StreamSearchFails(err)
    \/ ConsumerReturn

(***************************************************************************)
(* Two generators of one service instance, interleaved                     *)
(***************************************************************************)
\* Searches the two generators may issue between them.
MaxTwoSearches == 2

\* The event loop turns to the other generator: the running one is parked
\* with its frame, the parked one resumes with its own.
Switch ==
    /\ running' = 3 - running
    /\ parked' = Frame
    /\ stPc' = parked.stPc
    /\ cursor' = parked.cursor
    /\ sinceId' = parked.sinceId
    /\ nextSinceId' = parked.nextSinceId
    /\ tweets' = parked.tweets
    /\ idx' = parked.idx
    /\ stError' = parked.stError
    /\ pending' = parked.pending
    /\ returnQueued' = parked.returnQueued
    /\ abandoned' = parked.abandoned
    /\ nSearch' = parked.nSearch
    /\ lastReq' = parked.lastReq
    /\ searchError' = parked.searchError
    /\ yielded' = parked.yielded
    /\ dup' = parked.dup
    /\ roundIds' = parked.roundIds
    /\ provisos' = parked.provisos
    /\ firstTop' = parked.firstTop
    /\ roundPages' = parked.roundPages
    /\ emptyRounds' = parked.emptyRounds
    /\ UNCHANGED <<upVars, seVars, svVars, poVars>>

\* The timer of the running generator fires while the two have searches left.
SleepDoneOfRunning ==
    /\ nSearch + parked.nSearch < MaxTwoSearches
    /\ StreamSleepDone

\* What the upstream may answer a search of either generator with: any page
\* of the two oldest entities of the timeline, with or without a next cursor.
TwoStreamsResponses ==
    ResponsesOver({[rest_id |-> i, created_at |-> StreamDate(i)] : i \in {1, 2}}, 2)

TwoStreamsNext ==
    \/ ConsumerNext
    \/ SleepDoneOfRunning
    \/ \E resp \in TwoStreamsResponses :
            \E out \in SearchResults(resp) : StreamSearchReturns(resp, out)
    \/ \E err \in Errors : StreamSearchFails(err)
    \/ ConsumerReturn
    \/ Switch

(***************************************************************************)
(* The extractors table and FetcherService.extract                         *)
(***************************************************************************)
\* Members of EResourceType that TweetService names besides those above.
TWEET_DETAILS == "TWEET_DETAILS"
TWEET_LIKE == "TWEET_LIKE"
TWEET_LIKERS == "TWEET_LIKERS"
TWEET_CREATE == "TWEET_CREATE"
TWEET_RETWEET == "TWEET_RETWEET"
TWEET_RETWEETERS == "TWEET_RETWEETERS"

\* The keys of the `extractors` object literal.
ExtractorKeys ==
    {LIST_TWEETS,
     MEDIA_UPLOAD_APPEND, MEDIA_UPLOAD_FINALIZE, MEDIA_UPLOAD_INITIALIZE,
     TWEET_RETWEET, TWEET_CREATE, "TWEET_FAVORITE", TWEET_SEARCH, TWEET_DETAILS,
     "TWEET_FAVORITERS", TWEET_RETWEETERS,
     "USER_DETAILS_BY_USERNAME", "USER_DETAILS_BY_ID", "USER_FOLLOWING",
     "USER_FOLLOWERS", "USER_HIGHLIGHTS", "USER_LIKES", "USER_MEDIA",
     "USER_SUBSCRIPTIONS", "USER_TWEETS", "USER_TWEETS_AND_REPLIES"}

\* JavaScript values a response may hold where an extractor looks: nothing,
\* null, the empty string, an empty object, a non-empty string, a non-empty
\* object.
JsNull == "null"
EmptyString == "''"
EmptyObject == "{}"
SomeString == "'...'"
SomeObject == "{...}"
JsValues == {Undefined, JsNull, EmptyString, EmptyObject, SomeString, SomeObject}

\* ToBoolean of the values above: objects are true, the empty one included.
Truthy(v) == v \notin {Undefined, JsNull, EmptyString}

\* What `??` replaces by its right operand.
Nullish(v) == v \in {Undefined, JsNull}

\* Raw responses. `shape` is what the top-level envelope is; `marker` is the
\* value at the path the extractor of the resource reads (data.create_retweet,
\* data.favorite_tweet, data.create_tweet.tweet_results.result.rest_id,
\* media_id_string, the entity of a details response); `page` and `next` are
\* the page of the upstream dataset and the cursor a cursored response holds.
EnvelopeShapes == {"object", "string", "number"}
Envelope(shape, marker, page, next) ==
    [shape |-> shape, marker |-> marker, page |-> page, next |-> next]

\* No response yet.
NoEnvelope == Envelope("none", Undefined, 0, Undefined)

\* response?.a?.b : reading a property of a string or a number gives undefined.
PathValue(resp) == IF resp.shape = "object" THEN resp.marker ELSE Undefined

\* Results of extraction.
MalformedResponse == "E_MALFORMED"
TypeError == "E_TYPE"
Throw(err) == [kind |-> "throw", error |-> err]
JsUndefined == [kind |-> "undefined"]
JsBoolean(b) == [kind |-> "boolean", bool |-> b]
JsString(v) == [kind |-> "string", str |-> v]
Entity == [kind |-> "entity"]

\* new CursoredData(response, type), Tweet.single(response), User.single(response).
CursoredPage(resp) ==
    IF resp.shape = "object"
    THEN [kind |-> "CursoredData", list |-> resp.page, next |-> resp.next]
    ELSE Throw(MalformedResponse)
Single(resp) ==
    IF resp.shape # "object" THEN Throw(MalformedResponse)
    ELSE IF Truthy(resp.marker) THEN Entity ELSE JsUndefined

\* extractors[key](response), for a key of the table.
extractors(key, resp) ==
    CASE key \in {MEDIA_UPLOAD_APPEND, MEDIA_UPLOAD_FINALIZE} -> JsUndefined
      [] key \in {MEDIA_UPLOAD_INITIALIZE, TWEET_CREATE} ->
            IF Nullish(PathValue(resp)) THEN JsUndefined
            ELSE JsString(PathValue(resp))
      [] key \in {TWEET_RETWEET, "TWEET_FAVORITE"} ->
            JsBoolean(Truthy(PathValue(resp)))
      [] key \in {TWEET_DETAILS, "USER_DETAILS_BY_USERNAME", "USER_DETAILS_BY_ID"} ->
            Single(resp)
      [] OTHER -> CursoredPage(resp)

\* this.extract(response, resource): the table entry applied to the response.
\* A resource without an entry has nothing to apply.
extract(resp, resource) ==
    IF resource \in ExtractorKeys THEN extractors(resource, resp)
    ELSE Throw(TypeError)

(***************************************************************************)
(* details, like, likers, list, retweet, retweeters, search: one request,  *)
(* one extraction. The caller of a cursored method may call again with the *)
(* `next` cursor of the page it received.                                  *)
(***************************************************************************)
Methods == {"details", "like", "likers", "list", "retweet", "retweeters", "search"}

\* The resource each method passes to request and to extract.
ResourceOf(method) ==
    CASE method = "details" -> TWEET_DETAILS
      [] method = "like" -> TWEET_LIKE
      [] method = "likers" -> TWEET_LIKERS
      [] method = "list" -> LIST_TWEETS
      [] method = "retweet" -> TWEET_RETWEET
      [] method = "retweeters" -> TWEET_RETWEETERS
      [] method = "search" -> TWEET_SEARCH

\* Methods that take a cursor and return a CursoredData.
CursoredMethods == {"likers", "list", "retweeters", "search"}

\* Methods that end in `?? false`.
BooleanMethods == {"like", "retweet"}

\* The upstream dataset of a cursored resource: pages 1..n, the cursor of a
\* page leading to the next one, the last page holding no cursor.
DatasetPages == 1..(Cardinality(Cursors) + 1)
PageOf(c) == CASE c = Undefined -> 1 [] c = "c1" -> 2 [] c = "c2" -> 3
CursorTo(k) == CASE k = 2 -> "c1" [] k = 3 -> "c2" [] OTHER -> Undefined
DatasetPage(n, c) ==
    Envelope("object", SomeObject, PageOf(c),
             IF PageOf(c) < n THEN CursorTo(PageOf(c) + 1) ELSE Undefined)

\* What the upstream may answer a request of the method with.
Answers(method, n, c) ==
    {Envelope(sh, Undefined, 0, Undefined) : sh \in EnvelopeShapes \ {"object"}}
    \cup (IF method \in CursoredMethods
          THEN {DatasetPage(n, c)}
          ELSE {Envelope("object", v, 0, Undefined) : v \in JsValues})

\* The value the method returns for the extracted result.
Returned(method, res) ==
    IF method \in BooleanMethods /\ res.kind = "undefined"
    THEN JsBoolean(FALSE)
    ELSE res

ServiceInit ==
    /\ svOp \in Methods
    /\ svDataset \in DatasetPages
    /\ svCursor = Undefined
    /\ svPc = "ready"
    /\ svResponse = NoEnvelope
    /\ svResult = JsUndefined
    /\ svError = Undefined
    /\ svReceived = <<>>
    /\ svFault = FALSE

ServiceIdle ==
    /\ svOp = "details"
    /\ svDataset = 1
    /\ svCursor = Undefined
    /\ svPc = "idle"
    /\ svResponse = NoEnvelope
    /\ svResult = JsUndefined
    /\ svError = Undefined
    /\ svReceived = <<>>
    /\ svFault = FALSE

offService == <<upVars, seVars, stVars, twVars, poVars>>

\* The method is called and issues its request.
ServiceCall ==
    /\ svPc = "ready"
    /\ svPc' = "request"
    /\ UNCHANGED <<svOp, svCursor, svResponse, svResult, svError, svDataset,
                   svReceived, svFault>>
    /\ UNCHANGED offService

\* The request resolves; the response is extracted and the result returned.
ServiceRequestReturns(resp) ==
    /\ svPc = "request"
    /\ svResponse' = resp
    /\ svFault' = (svFault \/ resp.shape # "object")
    /\ LET res == extract(resp, ResourceOf(svOp))
       IN IF res.kind = "throw"
          THEN /\ svPc' = "failed"
               /\ svError' = res.error
               /\ UNCHANGED <<svResult, svReceived>>
          ELSE /\ svPc' = "returned"
               /\ svResult' = Returned(svOp, res)
               /\ svReceived' = IF res.kind = "CursoredData"
                                THEN Append(svReceived, res.list)
                                ELSE svReceived
               /\ UNCHANGED svError
    /\ UNCHANGED <<svOp, svCursor, svDataset>>
    /\ UNCHANGED offService

\* The request rejects; the method rejects with the same error.
ServiceRequestFails(err) ==
    /\ svPc = "request"
    /\ svPc' = "failed"
    /\ svError' = err
    /\ svFault' = TRUE
    /\ UNCHANGED <<svOp, svCursor, svResponse, svResult, svDataset, svReceived>>
    /\ UNCHANGED offService

\* The caller asks for the page after the one it received.
ServiceCallAgain ==
    /\ svPc = "returned"
    /\ svResult.kind = "CursoredData"
    /\ svResult.next # Undefined
    /\ svCursor' = svResult.next
    /\ svPc' = "request"
    /\ UNCHANGED <<svOp, svResponse, svResult, svError, svDataset, svReceived,
                   svFault>>
    /\ UNCHANGED offService

ServiceNext ==
    \/ ServiceCall
    \/ \E resp \in Answers(svOp, svDataset, svCursor) : ServiceRequestReturns(resp)
    \/ \E err \in Errors : ServiceRequestFails(err)
    \/ ServiceCallAgain

(***************************************************************************)
(* post(options)                                                           *)
(***************************************************************************)
\* Largest number of media items of one post.
MaxMedia == 2

\* The error the constructor of TweetArgs rejects malformed options with.
InvalidArgument == "E_INVALID_ARGUMENT"

\* The argument of post: whether it passes the validation of TweetArgs, and
\* its media items (the `path` of each is what upload receives).
PostOptions ==
    [valid : BOOLEAN, media : UNION {[1..k -> Medias] : k \in 0..MaxMedia}]

\* What the upstream may answer TWEET_CREATE with.
CreateAnswers ==
    {Envelope(sh, Undefined, 0, Undefined) : sh \in EnvelopeShapes \ {"object"}}
    \cup {Envelope("object", v, 0, Undefined) : v \in {Undefined, SomeString}}

PostInit ==
    /\ options \in PostOptions
    /\ poPc = "ready"
    /\ uploadedMedia = <<>>
    /\ poItem = 0
    /\ poTrace = <<>>
    /\ poResult = JsUndefined
    /\ poError = Undefined

PostIdle ==
    /\ options = [valid |-> TRUE, media |-> <<>>]
    /\ poPc = "idle"
    /\ uploadedMedia = <<>>
    /\ poItem = 0
    /\ poTrace = <<>>
    /\ poResult = JsUndefined
    /\ poError = Undefined

offPost == <<seVars, stVars, twVars, svVars>>

\* this.upload(item.path) is called for item k of tweet.media.
StartUpload(k) ==
    /\ poItem' = k
    /\ media' = options.media[k]
    /\ upPc' = "ready"
    /\ id' = Undefined
    /\ upTrace' = <<>>
    /\ upResult' = Undefined
    /\ upError' = Undefined

\* this.request(TWEET_CREATE, {tweet: {..., media: uploaded}}) is issued.
IssueCreate(trace, uploaded) ==
    /\ poTrace' = Append(trace, Request(TWEET_CREATE, [media |-> uploaded]))
    /\ poPc' = "create"

\* A variant of PostCall that uploads the media before looking at the options.
PostCallUploadFirst ==
    /\ poPc = "ready"
    /\ IF Len(options.media) > 0
       THEN /\ poPc' = "upload"
            /\ StartUpload(1)
            /\ UNCHANGED <<poTrace, poError>>
       ELSE IF ~options.valid
       THEN /\ poPc' = "failed"
            /\ poError' = InvalidArgument
            /\ UNCHANGED <<poItem, poTrace, upVars>>
       ELSE /\ IssueCreate(poTrace, uploadedMedia)
            /\ UNCHANGED <<poItem, poError, upVars>>
    /\ UNCHANGED <<options, uploadedMedia, poResult>>
    /\ UNCHANGED offPost

\* post is called: new TweetArgs(options) validates the options; then the
\* first media item is uploaded, or, without media, the tweet is created.
PostCall ==
    /\ poPc = "ready"
    /\ IF ~options.valid
       THEN /\ poPc' = "failed"
            /\ poError' = InvalidArgument
            /\ UNCHANGED <<poItem, poTrace, upVars>>
       ELSE IF Len(options.media) > 0
       THEN /\ poPc' = "upload"
            /\ StartUpload(1)
            /\ UNCHANGED <<poTrace, poError>>
       ELSE /\ IssueCreate(poTrace, uploadedMedia)
            /\ UNCHANGED <<poItem, poError, upVars>>
    /\ UNCHANGED <<options, uploadedMedia, poResult>>
    /\ UNCHANGED offPost

\* A variant of PostUploadReturns that stores the id in front of the others.
PostUploadReturnsUnshift ==
    /\ poPc = "upload"
    /\ upPc = "returned"
    /\ uploadedMedia' = <<upResult>> \o uploadedMedia
    /\ IF poItem < Len(options.media)
       THEN /\ poTrace' = poTrace \o upTrace
            /\ StartUpload(poItem + 1)
            /\ UNCHANGED poPc
       ELSE /\ IssueCreate(poTrace \o upTrace, uploadedMedia')
            /\ upPc' = "idle"
            /\ UNCHANGED <<poItem, media, id, upTrace, upResult, upError>>
    /\ UNCHANGED <<options, poResult, poError>>
    /\ UNCHANGED offPost

\* upload resolved with an id: the id is stored and the next item is
\* uploaded, or, after the last one, the tweet is created.
PostUploadReturns ==
    /\ poPc = "upload"
    /\ upPc = "returned"
    /\ uploadedMedia' = Append(uploadedMedia, upResult)
    /\ IF poItem < Len(options.media)
       THEN /\ poTrace' = poTrace \o upTrace
            /\ StartUpload(poItem + 1)
            /\ UNCHANGED poPc
       ELSE /\ IssueCreate(poTrace \o upTrace, uploadedMedia')
            /\ upPc' = "idle"
            /\ UNCHANGED <<poItem, media, id, upTrace, upResult, upError>>
    /\ UNCHANGED <<options, poResult, poError>>
    /\ UNCHANGED offPost

\* A variant of PostUploadFails that leaves the failed item out and goes on.
PostUploadFailsSkip ==
    /\ poPc = "upload"
    /\ upPc = "failed"
    /\ IF poItem < Len(options.media)
       THEN /\ poTrace' = poTrace \o upTrace
            /\ StartUpload(poItem + 1)
            /\ UNCHANGED poPc
       ELSE /\ IssueCreate(poTrace \o upTrace, uploadedMedia)
            /\ upPc' = "idle"
            /\ UNCHANGED <<poItem, media, id, upTrace, upResult, upError>>
    /\ UNCHANGED <<options, uploadedMedia, poResult, poError>>
    /\ UNCHANGED offPost

\* upload rejected: post rejects with the same error.
PostUploadFails ==
    /\ poPc = "upload"
    /\ upPc = "failed"
    /\ poPc' = "failed"
    /\ poError' = upError
    /\ poTrace' = poTrace \o upTrace
    /\ upPc' = "idle"
    /\ UNCHANGED <<options, uploadedMedia, poItem, poResult>>
    /\ UNCHANGED <<media, id, upTrace, upResult, upError>>
    /\ UNCHANGED offPost

\* The TWEET_CREATE request resolves; the id of the tweet is extracted.
PostCreateReturns(resp) ==
    /\ poPc = "create"
    /\ poTrace' = Append(poTrace, Response(TWEET_CREATE, resp))
    /\ LET res == extract(resp, TWEET_CREATE)
       IN IF res.kind = "throw"
          THEN poPc' = "failed" /\ poError' = res.error /\ UNCHANGED poResult
          ELSE poPc' = "returned" /\ poResult' = res /\ UNCHANGED poError
    /\ UNCHANGED <<options, uploadedMedia, poItem>>
    /\ UNCHANGED <<upVars, offPost>>

\* The TWEET_CREATE request rejects; post rejects with the same error.
PostCreateFails(err) ==
    /\ poPc = "create"
    /\ poTrace' = Append(poTrace, Failure(TWEET_CREATE, err))
    /\ poPc' = "failed"
    /\ poError' = err
    /\ UNCHANGED <<options, uploadedMedia, poItem, poResult>>
    /\ UNCHANGED <<upVars, offPost>>

PostNext ==
    \/ PostCall
    \/ PostUploadReturns
    \/ PostUploadFails
    \/ \E resp \in CreateAnswers : PostCreateReturns(resp)
    \/ \E err \in Errors : PostCreateFails(err)

(***************************************************************************)
(* Specifications                                                          *)
(***************************************************************************)
InitUpload == UploadInit /\ SearchIdle /\ StreamIdle /\ ServiceIdle /\ PostIdle
NextUpload == UploadNext
SpecUpload == InitUpload /\ [][NextUpload]_vars

InitSearch == UploadIdle /\ SearchInit /\ StreamIdle /\ ServiceIdle /\ PostIdle
NextSearch == SearchNext
SpecSearch == InitSearch /\ [][NextSearch]_vars

InitStream == UploadIdle /\ SearchIdle /\ StreamInit /\ TwoStreamsInit /\ ServiceIdle /\ PostIdle
NextStream == StreamNext
SpecStream == InitStream /\ [][NextStream]_vars

SpecStreamUnparseable == InitStream /\ [][StreamUnparseableNext]_vars

SpecTwoStreams == InitStream /\ [][TwoStreamsNext]_vars

InitPost == UploadIdle /\ SearchIdle /\ StreamIdle /\ ServiceIdle /\ PostInit
NextPost == PostNext \/ UploadNext
SpecPost == InitPost /\ [][NextPost]_vars

InitService == UploadIdle /\ SearchIdle /\ StreamIdle /\ ServiceInit /\ PostIdle
NextService == ServiceNext
SpecService == InitService /\ [][NextService]_vars

(***************************************************************************)
(* Properties of upload (SpecUpload)                                       *)
(***************************************************************************)
\* Positions of the trace where resource r was requested, resolved, rejected.
Issued(r) ==
    {i \in 1..Len(upTrace) : upTrace[i].type = "request" /\ upTrace[i].resource = r}
Completed(r) ==
    {i \in 1..Len(upTrace) : upTrace[i].type = "response" /\ upTrace[i].resource = r}
Rejected ==
    {i \in 1..Len(upTrace) : upTrace[i].type = "error"}

\* C1: the requests of upload are issued in the order Initialize, Append,
\* Finalize, each at most once: Append only after Initialize has resolved,
\* Finalize only after Append has resolved, and upload returns only after
\* Finalize has resolved.
C1_PhasesInOrder ==
    /\ \A i \in Issued(MEDIA_UPLOAD_APPEND) :
            \E j \in Completed(MEDIA_UPLOAD_INITIALIZE) : j < i
    /\ \A i \in Issued(MEDIA_UPLOAD_FINALIZE) :
            \E j \in Completed(MEDIA_UPLOAD_APPEND) : j < i
    /\ \A i \in Issued(MEDIA_UPLOAD_FINALIZE) :
            \A j \in Issued(MEDIA_UPLOAD_APPEND) : j < i
    /\ \A i \in Issued(MEDIA_UPLOAD_APPEND) :
            \A j \in Issued(MEDIA_UPLOAD_INITIALIZE) : j < i
    /\ upPc = "returned" => Completed(MEDIA_UPLOAD_FINALIZE) # {}

\* An upload that ran its three phases and returned.
C1_Witness ==
    /\ upPc = "returned"
    /\ Issued(MEDIA_UPLOAD_INITIALIZE) # {}
    /\ Issued(MEDIA_UPLOAD_APPEND) # {}
    /\ Issued(MEDIA_UPLOAD_FINALIZE) # {}

\* C2: when a phase of upload fails, nothing is requested after the failure,
\* the failed phase was requested exactly once, and upload fails with the
\* error of that phase and returns no media id.
C2_FailureAborts ==
    \A i \in Rejected :
        /\ i = Len(upTrace)
        /\ Cardinality(Issued(upTrace[i].resource)) = 1
        /\ upPc = "failed"
        /\ upError = upTrace[i].err
        /\ upResult = Undefined

\* Append failed after Initialize had resolved.
C2_Witness ==
    /\ upPc = "failed"
    /\ \E i \in Rejected : upTrace[i].resource = MEDIA_UPLOAD_APPEND

\* C3: when Initialize resolves with a response that carries no media
\* identifier, upload fails with UploadInitFailed and requests neither Append
\* nor Finalize.
C3_InitWithoutIdFails ==
    (\E i \in Completed(MEDIA_UPLOAD_INITIALIZE) :
            upTrace[i].body.media_id_string = Undefined)
        => /\ Issued(MEDIA_UPLOAD_APPEND) = {}
           /\ Issued(MEDIA_UPLOAD_FINALIZE) = {}
           /\ upPc = "failed"
           /\ upError = "UploadInitFailed"

(***************************************************************************)
(* Properties of search and list (SpecSearch)                              *)
(***************************************************************************)
\* C10: the list search and list return is a rearrangement of the extracted
\* entities in which no entity precedes a more recent one (by createdAt), and
\* the next cursor is the extracted one.
C10_SortedDescending ==
    sePc = "returned" =>
        /\ data.list \in Rearrangements(CursoredData(seResponse).list)
        /\ \A i, j \in 1..Len(data.list) :
                (/\ i < j
                 /\ DateValue(data.list[i].createdAt) # NaN
                 /\ DateValue(data.list[j].createdAt) # NaN)
                    => DateValue(data.list[i].createdAt)
                            >= DateValue(data.list[j].createdAt)
        /\ data.next = CursoredData(seResponse).next

(***************************************************************************)
(* Properties of stream (SpecStream)                                       *)
(***************************************************************************)
\* C4, as claimed: no entity is yielded twice, provided the upstream returns
\* only entities more recent than the sinceId it is given and the sub-pages
\* of one round are disjoint.
C4_NoDuplicateAsClaimed ==
    (provisos.since /\ provisos.disjoint) => ~dup

\* C4, amended: no entity is yielded twice, provided the upstream returns
\* only entities more recent than the sinceId it is given, the sub-pages of
\* one round are disjoint, and no entity of a round is more recent than the
\* first entity of the round's first sub-page.
C4_NoDuplicate ==
    (provisos.since /\ provisos.disjoint /\ provisos.top) => ~dup

\* A round of two sub-pages was yielded, and an entity of the next round, all
\* under the provisos.
C4_Witness ==
    /\ provisos.since /\ provisos.disjoint /\ provisos.top
    /\ lastReq.sinceId # NoId
    /\ lastReq.prevPages >= 2
    /\ stPc = "yield"
    /\ Cardinality(yielded) >= 3

\* C5: after a round whose first sub-page was not empty, the first search of
\* the next round carries the id of that sub-page's first entity as sinceId.
C5_NextRoundSince ==
    (nSearch > 0 /\ lastReq.cursor = Undefined /\ lastReq.prevTop # NoId)
        => lastReq.sinceId = lastReq.prevTop

\* The first search of a round that follows a round of two sub-pages.
C5_Witness ==
    /\ stPc = "search"
    /\ lastReq.cursor = Undefined
    /\ lastReq.prevTop # NoId
    /\ lastReq.prevPages >= 2

\* C6: the generator completes only by a failed search or by the consumer's
\* return(); an empty batch leads back to the interval sleep.
C6_NeverCompletes ==
    /\ [](stPc = "done" => (stError # Undefined \/ abandoned))
    /\ [][(stPc = "search" /\ stPc' # "search" /\ stError' = Undefined
                /\ tweets'.list = <<>>) => stPc' = "sleep"]_vars

\* Two empty rounds in a row, and the generator sleeps again.
C6_Witness ==
    /\ emptyRounds >= 2
    /\ stPc = "sleep"
    /\ ~abandoned

\* C7: when a search fails, the sequence terminates with that error, and no
\* search is issued afterwards.
C7_ErrorPropagates ==
    /\ [](searchError # Undefined => (stPc = "done" /\ stError = searchError))
    /\ [][searchError # Undefined => nSearch' = nSearch]_vars

\* The second search of the generator failed, after entities were yielded.
C7_Witness ==
    /\ searchError # Undefined
    /\ nSearch >= 2
    /\ yielded # {}

\* C8, as claimed: a cursor continuation is searched without an interval
\* sleep between it and the search before it.
C8_ContinuationWithoutSleep ==
    (nSearch > 0 /\ lastReq.cursor # Undefined) => ~lastReq.slept

\* C8, amended: a cursor continuation is searched only after one more
\* interval sleep, like the first search of a round.
C8_ContinuationAfterSleep ==
    (nSearch > 0 /\ lastReq.cursor # Undefined) => lastReq.slept

\* A cursor continuation was searched.
C8_Witness ==
    /\ stPc = "search"
    /\ lastReq.cursor # Undefined

\* C9: once the consumer has abandoned the generator, no search is issued.
C9_NoSearchAfterAbandon ==
    [][abandoned => nSearch' = nSearch]_vars

(***************************************************************************)
(* Properties of like, retweet and extraction (SpecService)                *)
(***************************************************************************)
\* The call ended after the upstream answered with a JSON object.
Answered == svPc \in {"returned", "failed"} /\ svResponse.shape = "object"

\* C11: like and retweet return false, and no error, when the success marker
\* of the response is absent or present but empty (null, the empty string,
\* an empty object), and return true when the marker is a non-empty object.
C11_BooleanOutcome ==
    (svOp \in BooleanMethods /\ Answered) =>
        /\ svResponse.marker \in {Undefined, JsNull, EmptyString, EmptyObject} =>
                svPc = "returned" /\ svResult = JsBoolean(FALSE)
        /\ svResponse.marker = SomeObject =>
                svPc = "returned" /\ svResult = JsBoolean(TRUE)

\* C12: when the envelope of the response is not a JSON object (a string, a
\* number), the call fails with MalformedResponse and returns no result.
C12_NonObjectEnvelopeFails ==
    (svPc \in {"returned", "failed"} /\ svResponse.shape \in {"string", "number"})
        => svPc = "failed" /\ svError = MalformedResponse

\* C13: the resource a method of TweetService passes to extract has an entry
\* in the extractors table.
C13_ExtractorForEveryResource ==
    svResponse # NoEnvelope => ResourceOf(svOp) \in ExtractorKeys

\* C14: a caller of search, list, likers or retweeters that feeds each `next`
\* back as the cursor receives the pages of the upstream dataset one after
\* another, each once, in at most as many calls as there are pages, and ends
\* with all of them unless the upstream failed it.
C14_PagesOnceEach ==
    svOp \in CursoredMethods =>
        /\ \E k \in 0..svDataset : svReceived = [i \in 1..k |-> i]
        /\ (svPc = "returned" /\ svResult.next = Undefined)
                => Len(svReceived) = svDataset
        /\ svPc = "failed" => svFault

C17_BatchYieldedInOrder ==
    /\ [](/\ idx \in 0..Len(tweets.list)
          /\ \A k \in 1..idx : tweets.list[k].id \in yielded
          /\ stPc \in {"sleep", "search"} => idx = Len(tweets.list)
          /\ \A i, j \in 1..Len(tweets.list) :
                (/\ i < j
                 /\ DateValue(tweets.list[i].createdAt) # NaN
                 /\ DateValue(tweets.list[j].createdAt) # NaN)
                    => DateValue(tweets.list[i].createdAt)
                            >= DateValue(tweets.list[j].createdAt))
    /\ [][(stPc = "yield" /\ idx' # idx) => (tweets' = tweets /\ idx' = idx + 1)]_vars

\* C18: the generator runs only while a next() is pending, and it sleeps or
\* searches only when every entity of the batch it holds was delivered.
C18_PullDriven ==
    stPc \in {"sleep", "search"} => (pending /\ idx = Len(tweets.list))

\* A batch of two entities was delivered and the next search is under way.
C18_Witness ==
    /\ stPc = "search"
    /\ Len(tweets.list) = 2
    /\ idx = 2
    /\ pending

\* C19: the first search of the generator and the first search of every later
\* round were each preceded by the interval sleep, and nothing is yielded
\* before the first sleep has ended and its search was issued.
C19_SleepBeforeRound ==
    /\ (nSearch > 0 /\ lastReq.cursor = Undefined) => lastReq.slept
    /\ nSearch = 0 => (yielded = {} /\ stPc \in {"start", "sleep", "done"})

\* The first search of a later round.
C19_Witness ==
    /\ stPc = "search"
    /\ nSearch >= 2
    /\ lastReq.cursor = Undefined
    /\ lastReq.slept
    /\ yielded # {}

\* C20: a search carries the next cursor of the sub-page before it when that
\* sub-page continues the round (it was not empty and held a next cursor),
\* and no cursor otherwise: on the first search and after a round has ended.
C20_CursorOfPosition ==
    stPc = "search" =>
        lastReq.cursor = (IF Len(tweets.list) > 0 /\ tweets.next # Undefined
                          THEN tweets.next
                          ELSE Undefined)

\* The first search of the round after a round of two sub-pages, the second
\* of which was empty and held a next cursor.
C20_Witness ==
    /\ stPc = "search"
    /\ nSearch = 3
    /\ lastReq.prevPages = 2
    /\ tweets.list = <<>>
    /\ tweets.next # Undefined
    /\ lastReq.cursor = Undefined

(***************************************************************************)
(* Properties of the watermark of stream (SpecStream)                      *)
(***************************************************************************)
\* C21: sinceId changes only at the end of a round: a cursor continuation is
\* searched with the sinceId of the search before it, and a step that
\* changes sinceId is the bookkeeping of a batch that ends the round (the
\* batch is empty or holds no next cursor) and clears the cursor.
C21_SinceIdFixedInRound ==
    [][/\ (nSearch' = nSearch + 1 /\ lastReq'.cursor # Undefined)
            => lastReq'.sinceId = lastReq.sinceId
       /\ sinceId' # sinceId
            => /\ cursor' = Undefined
               /\ tweets'.list = <<>> \/ tweets'.next = Undefined]_vars

\* A cursor continuation is searched with the old sinceId although the
\* candidate watermark of the round is recorded.
C21_Witness ==
    /\ stPc = "search"
    /\ lastReq.cursor # Undefined
    /\ nextSinceId # NoId
    /\ nextSinceId # lastReq.sinceId

\* C22: sinceId is absent or the id of an entity already yielded; once set
\* it is never absent again; and a round whose first sub-page is empty
\* leaves it as it was.
C22_SinceIdYielded ==
    /\ [](sinceId = NoId \/ sinceId \in yielded)
    /\ [][/\ sinceId # NoId => sinceId' # NoId
          /\ (/\ stPc = "search"
              /\ stPc' = "sleep"
              /\ lastReq.cursor = Undefined
              /\ tweets'.list = <<>>) => sinceId' = sinceId]_vars

\* A round whose first sub-page was empty has ended, with the watermark set
\* by an earlier round.
C22_Witness ==
    /\ stPc = "sleep"
    /\ sinceId # NoId
    /\ lastReq.cursor = Undefined
    /\ lastReq.sinceId = sinceId
    /\ tweets.list = <<>>
    /\ nSearch >= 2

\* C23: a cursor continuation is searched only in a round whose first
\* sub-page was not empty; so a round that returned entities ends with the
\* watermark at the first entity of its first sub-page, which, the upstream
\* returning only entities more recent than the sinceId it is given, is not
\* the watermark the round was searched with.
C23_EmptyFirstPageEndsRound ==
    /\ (nSearch > 0 /\ lastReq.cursor # Undefined) => lastReq.prevTop # NoId
    /\ (stPc = "sleep" /\ nSearch > 0 /\ cursor = Undefined /\ roundIds # {})
            => /\ firstTop # NoId
               /\ sinceId = firstTop
               /\ provisos.since => sinceId # lastReq.sinceId

\* The first sub-page of a round was empty and held a next cursor; the round
\* has ended and the next round is searched without cursor.
C23_Witness ==
    /\ stPc = "search"
    /\ lastReq.cursor = Undefined
    /\ lastReq.prevPages = 1
    /\ tweets.list = <<>>
    /\ tweets.next # Undefined

(***************************************************************************)
(* Properties of the uploads of post (SpecPost)                            *)
(***************************************************************************)
\* C24: post uploads its k media items one at a time in the order given:
\* while item i is uploaded the trace holds the three completed phases of
\* items 1..i-1 and nothing else; TWEET_CREATE is requested once, after the
\* three phases of all k uploads, item i being the payload of the i-th
\* Append, and carries the k ids of the Initialize responses in that order.
C24_UploadsInOrderThenCreate ==
    LET k == Len(options.media)
        creates == {j \in 1..Len(poTrace) :
                        poTrace[j].type = "request" /\ poTrace[j].resource = TWEET_CREATE}
        IsEvent(j, type, res) == poTrace[j].type = type /\ poTrace[j].resource = res
    IN /\ Cardinality(creates) <= 1
       /\ poPc = "upload" => /\ Len(poTrace) = 6 * (poItem - 1)
                             /\ media = options.media[poItem]
                             /\ Len(uploadedMedia) = poItem - 1
       /\ \A j \in creates :
            /\ j = 6 * k + 1
            /\ \A i \in 1..k :
                LET b == 6 * (i - 1)
                IN /\ IsEvent(b + 1, "request", MEDIA_UPLOAD_INITIALIZE)
                   /\ IsEvent(b + 2, "response", MEDIA_UPLOAD_INITIALIZE)
                   /\ IsEvent(b + 3, "request", MEDIA_UPLOAD_APPEND)
                   /\ poTrace[b + 3].args.media = options.media[i]
                   /\ IsEvent(b + 4, "response", MEDIA_UPLOAD_APPEND)
                   /\ IsEvent(b + 5, "request", MEDIA_UPLOAD_FINALIZE)
                   /\ IsEvent(b + 6, "response", MEDIA_UPLOAD_FINALIZE)
            /\ Len(poTrace[j].args.media) = k
            /\ \A i \in 1..k :
                poTrace[j].args.media[i] = poTrace[6 * (i - 1) + 2].body.media_id_string

\* The tweet of a post with two different media items, uploaded under two
\* different ids, is being created.
C24_Witness ==
    /\ poPc = "create"
    /\ Len(options.media) = 2
    /\ options.media[1] # options.media[2]
    /\ Len(uploadedMedia) = 2
    /\ uploadedMedia[1] # uploadedMedia[2]

\* C25: when the upload of a media item fails, post fails with the error of
\* the upload; the failure is the last thing that happened: no later item is
\* uploaded and TWEET_CREATE is not requested; the uploads before it stay
\* completed and nothing is requested for them.
C25_UploadFailureFailsPost ==
    LET failures == {j \in 1..Len(poTrace) :
                        poTrace[j].type = "error" /\ poTrace[j].resource # TWEET_CREATE}
        Count(type, res) ==
            Cardinality({j \in 1..Len(poTrace) :
                            poTrace[j].type = type /\ poTrace[j].resource = res})
    IN /\ \A j \in failures :
            /\ j = Len(poTrace)
            /\ poPc = "failed"
            /\ poError = poTrace[j].err
       /\ (poPc = "failed" /\ upError # Undefined) =>
            /\ poError = upError
            /\ Count("request", TWEET_CREATE) = 0
            /\ Len(uploadedMedia) = poItem - 1
            /\ Count("response", MEDIA_UPLOAD_FINALIZE) = poItem - 1
            /\ Count("request", MEDIA_UPLOAD_INITIALIZE) <= poItem

\* The upload of the second media item failed after the first had succeeded.
C25_Witness ==
    /\ poPc = "failed"
    /\ poItem = 2
    /\ Len(uploadedMedia) = 1
    /\ upError \in Errors
    /\ Len(options.media) >= 2

(***************************************************************************)
(* Properties of the identifier and the size of upload (SpecUpload)        *)
(***************************************************************************)
\* C26: Initialize is requested with the size of the payload; and when upload
\* has returned, the identifier of the Initialize response is the one Append
\* was requested with, together with the payload, the one Finalize was
\* requested with, and the value returned.
C26_IdAndSizeConsistent ==
    /\ \A i \in Issued(MEDIA_UPLOAD_INITIALIZE) : upTrace[i].args.size = media.size
    /\ upPc = "returned" =>
        \A r \in Completed(MEDIA_UPLOAD_INITIALIZE) :
            /\ \A i \in Issued(MEDIA_UPLOAD_APPEND) :
                    /\ upTrace[i].args.id = upTrace[r].body.media_id_string
                    /\ upTrace[i].args.media = media
            /\ \A i \in Issued(MEDIA_UPLOAD_FINALIZE) :
                    upTrace[i].args.id = upTrace[r].body.media_id_string
            /\ upResult = upTrace[r].body.media_id_string

\* The upload of a file has returned the identifier the upstream allocated.
C26_Witness ==
    /\ upPc = "returned"
    /\ upResult \in MediaIds
    /\ media.kind = "path"
    /\ Issued(MEDIA_UPLOAD_FINALIZE) # {}

====
